---- MODULE Spec2Model ----
(***************************************************************************)
(* Model of xvalues.c: a command-line tool that parses integers given as   *)
(* arguments and prints each in hexadecimal, decimal, with a magnitude     *)
(* suffix and optionally as a bit string.                                  *)
(*                                                                         *)
(* uint64_t values are sequences of NLimbs base-1024 digits, least         *)
(* significant first, the top digit holding the remaining 4 bits:          *)
(* arithmetic on them is exact and wraps modulo 2^64 as in C.  Strings are *)
(* sequences of one-character strings.                                     *)
(***************************************************************************)
EXTENDS Integers, Sequences, FiniteSets, TLC

\* ------------------------------------------------------------------------
\* uint64_t arithmetic
\* ------------------------------------------------------------------------
Bits == 64
LimbBits == 10
Radix == 2 ^ LimbBits
NLimbs == (Bits + LimbBits - 1) \div LimbBits
TopRadix == 2 ^ (Bits - LimbBits * (NLimbs - 1))
LimbRadix(k) == IF k = NLimbs THEN TopRadix ELSE Radix

\* the uint64_t with the value of the small natural n (n < 2^30)
U64(n) == [k \in 1..NLimbs |->
             IF k = 1 THEN n % Radix
             ELSE IF k = 2 THEN (n \div Radix) % Radix
             ELSE IF k = 3 THEN (n \div (Radix * Radix)) % Radix
             ELSE 0]
Zero == U64(0)
ULLONG_MAX == [k \in 1..NLimbs |-> LimbRadix(k) - 1]

\* comparison of two uint64_t, from the most significant limb down
RECURSIVE CmpFrom(_, _, _)
CmpFrom(a, b, k) ==
  IF k = 0 THEN 0
  ELSE IF a[k] < b[k] THEN -1
  ELSE IF a[k] > b[k] THEN 1
  ELSE CmpFrom(a, b, k - 1)
Lt(a, b) == CmpFrom(a, b, NLimbs) < 0
Le(a, b) == CmpFrom(a, b, NLimbs) <= 0

\* a * m + c for small m and c (m <= 16, c <= 2^11): the wrapped value and
\* what the exact result carries out of 64 bits
RECURSIVE MulAddFrom(_, _, _, _)
MulAddFrom(a, m, c, k) ==
  IF k > NLimbs THEN [val |-> <<>>, carry |-> c]
  ELSE LET t == a[k] * m + c
           rest == MulAddFrom(a, m, t \div LimbRadix(k), k + 1)
       IN [val |-> <<t % LimbRadix(k)>> \o rest.val, carry |-> rest.carry]
MulAdd(a, m, c) == MulAddFrom(a, m, c, 1)

\* a * b modulo 2^64 (schoolbook product of the limbs, high part dropped)
RECURSIVE ConvSum(_, _, _, _)
ConvSum(a, b, k, i) ==
  IF i > k THEN 0 ELSE a[i] * b[k + 1 - i] + ConvSum(a, b, k, i + 1)
RECURSIVE MulFrom(_, _, _, _)
MulFrom(a, b, c, k) ==
  IF k > NLimbs THEN <<>>
  ELSE LET t == ConvSum(a, b, k, 1) + c
       IN <<t % LimbRadix(k)>> \o MulFrom(a, b, t \div LimbRadix(k), k + 1)
Mul(a, b) == IF a = Zero \/ b = Zero THEN Zero ELSE MulFrom(a, b, 0, 1)

\* -a modulo 2^64
Neg(a) == MulAdd([k \in 1..NLimbs |-> LimbRadix(k) - 1 - a[k]], 1, 1).val

\* a divided by the small d: quotient and remainder, most significant limb first
RECURSIVE DivFrom(_, _, _, _)
DivFrom(a, d, r, k) ==
  IF k = 0 THEN [q |-> <<>>, r |-> r]
  ELSE LET t == r * LimbRadix(k) + a[k]
           rest == DivFrom(a, d, t % d, k - 1)
       IN [q |-> rest.q \o <<t \div d>>, r |-> rest.r]
DivMod(a, d) == DivFrom(a, d, 0, NLimbs)

\* bit i (0 = least significant) of a
Bit(a, i) == (a[(i \div LimbBits) + 1] \div (2 ^ (i % LimbBits))) % 2

\* 2^n - 1 for n in 0..64 (0xf, 0xff, 0xffff, 0xffffffff)
Ones(n) == [k \in 1..NLimbs |->
              LET lo == (k - 1) * LimbBits
              IN IF n >= lo + LimbBits THEN LimbRadix(k) - 1
                 ELSE IF n > lo THEN 2 ^ (n - lo) - 1
                 ELSE 0]

\* the uint64_t whose set bits are those of S (a subset of 0..63)
RECURSIVE LimbOfBits(_, _, _)
LimbOfBits(S, k, j) ==
  IF j = LimbBits THEN 0
  ELSE (IF (k - 1) * LimbBits + j \in S THEN 2 ^ j ELSE 0) + LimbOfBits(S, k, j + 1)
FromBits(S) == [k \in 1..NLimbs |-> LimbOfBits(S, k, 0)]

\* the number of significant bits of a
BitLength(a) ==
  LET set == {n \in 0..(Bits - 1) : Bit(a, n) = 1}
  IN IF set = {} THEN 0 ELSE 1 + CHOOSE n \in set : \A m \in set : m <= n

\* a converted to double: rounded to DBL_MANT_DIG significant bits, to
\* nearest and to even on a tie.  The result is an integer of at most 65
\* bits: val holds its low 64 bits and carry is 1 when it is 2^64.
DBL_MANT_DIG == 53
ToDouble(a) ==
  LET drop == BitLength(a) - DBL_MANT_DIG
  IN IF drop <= 0 THEN [val |-> a, carry |-> 0]
     ELSE LET kept == FromBits({n \in drop..(Bits - 1) : Bit(a, n) = 1})
              low == {n \in 0..(drop - 1) : Bit(a, n) = 1}
              up == (drop - 1) \in low /\ (low # {drop - 1} \/ Bit(a, drop) = 1)
          IN IF up THEN MulAdd(kept, 1, 2 ^ drop) ELSE [val |-> kept, carry |-> 0]

\* ------------------------------------------------------------------------
\* Characters and strings
\* ------------------------------------------------------------------------
LowerDigits == <<"0", "1", "2", "3", "4", "5", "6", "7", "8", "9",
                 "a", "b", "c", "d", "e", "f">>
UpperDigits == <<"0", "1", "2", "3", "4", "5", "6", "7", "8", "9",
                 "A", "B", "C", "D", "E", "F">>
\* isspace() in the C locale
IsSpace(c) == c \in {" ", "\t", "\n", "\r", "\f"}
\* the value of c as a digit, or NoDigit when it is none in any base up to 16
NoDigit == Len(LowerDigits)
DigitTable ==
  [c \in {LowerDigits[d] : d \in 1..Len(LowerDigits)}
          \cup {UpperDigits[d] : d \in 1..Len(UpperDigits)} |->
     CHOOSE d \in 0..(NoDigit - 1) : LowerDigits[d + 1] = c \/ UpperDigits[d + 1] = c]
DigitVal(c) == IF c \in DOMAIN DigitTable THEN DigitTable[c] ELSE NoDigit
Rep(c, n) == [k \in 1..n |-> c]

\* ------------------------------------------------------------------------
\* The band table
\* ------------------------------------------------------------------------
KB == U64(1024)
\* MB with a decimal step, 1000 * KB
MB_decimal == Mul(U64(1000), KB)
MB == Mul(U64(1024), KB)
GB == Mul(U64(1024), MB)
TB == Mul(U64(1024), GB)
PB == Mul(U64(1024), TB)
EB == Mul(U64(1024), PB)

\* enum multipliers
BYTE == 0
KILO == 1
MEGA == 2
GIGA == 3
TERA == 4
PETA == 5
EXI == 6
Bands == BYTE..EXI

\* data[], indexed by band
data == [b \in Bands |->
  CASE b = BYTE -> [suffix |-> "b", width_hex |-> 4, width_dec |-> 4, multi |-> U64(1)]
    [] b = KILO -> [suffix |-> "K", width_hex |-> 8, width_dec |-> 7, multi |-> Mul(U64(1), KB)]
    [] b = MEGA -> [suffix |-> "M", width_hex |-> 8, width_dec |-> 10, multi |-> Mul(U64(1), MB)]
    [] b = GIGA -> [suffix |-> "G", width_hex |-> 12, width_dec |-> 13, multi |-> Mul(U64(1), GB)]
    [] b = TERA -> [suffix |-> "T", width_hex |-> 16, width_dec |-> 16, multi |-> Mul(U64(1), TB)]
    [] b = PETA -> [suffix |-> "P", width_hex |-> 16, width_dec |-> 19, multi |-> Mul(U64(1), PB)]
    [] b = EXI -> [suffix |-> "E", width_hex |-> 16, width_dec |-> 20, multi |-> Mul(U64(1), EB)]]

\* ------------------------------------------------------------------------
\* Classification and formatting
\* ------------------------------------------------------------------------
\* get_multiplier with <= in place of <: a boundary value falls in the band below
get_multiplier_inclusive(v) ==
  IF Le(v, Mul(U64(1), KB)) THEN BYTE
  ELSE IF Le(v, Mul(U64(1), MB)) THEN KILO
  ELSE IF Le(v, Mul(U64(1), GB)) THEN MEGA
  ELSE IF Le(v, Mul(U64(1), TB)) THEN GIGA
  ELSE IF Le(v, Mul(U64(1), PB)) THEN TERA
  ELSE IF Le(v, Mul(U64(1), EB)) THEN PETA
  ELSE EXI
get_multiplier(v) ==
  IF Lt(v, Mul(U64(1), KB)) THEN BYTE
  ELSE IF Lt(v, Mul(U64(1), MB)) THEN KILO
  ELSE IF Lt(v, Mul(U64(1), GB)) THEN MEGA
  ELSE IF Lt(v, Mul(U64(1), TB)) THEN GIGA
  ELSE IF Lt(v, Mul(U64(1), PB)) THEN TERA
  ELSE IF Lt(v, Mul(U64(1), EB)) THEN PETA
  ELSE EXI

\* print_binary filling str[] from the front: least significant bit first
print_binary_reversed(v, zero_ch) ==
  LET len == IF Le(v, Ones(4)) THEN 4
             ELSE IF Le(v, Ones(8)) THEN 8
             ELSE IF Le(v, Ones(16)) THEN 16
             ELSE IF Le(v, Ones(32)) THEN 32
             ELSE 64
  IN [p \in 1..len |-> IF Bit(v, p - 1) = 1 THEN "1" ELSE zero_ch]
\* the string print_binary builds in str[] (printed after two spaces)
print_binary(v, zero_ch) ==
  LET len == IF Le(v, Ones(4)) THEN 4
             ELSE IF Le(v, Ones(8)) THEN 8
             ELSE IF Le(v, Ones(16)) THEN 16
             ELSE IF Le(v, Ones(32)) THEN 32
             ELSE 64
  IN [p \in 1..len |-> IF Bit(v, len - p) = 1 THEN "1" ELSE zero_ch]

\* printf("%0*" PRIx64, w, v): lower-case hex digits, zero-padded to w
Nibble(v, j) == Bit(v, 4 * j) + 2 * Bit(v, 4 * j + 1)
                + 4 * Bit(v, 4 * j + 2) + 8 * Bit(v, 4 * j + 3)
HexLen(v) ==
  LET used == {j \in 0..(Bits \div 4 - 1) : Nibble(v, j) # 0}
  IN IF used = {} THEN 1 ELSE 1 + CHOOSE j \in used : \A h \in used : h <= j
FormatHex(v, w) ==
  LET len == IF HexLen(v) > w THEN HexLen(v) ELSE w
  IN [p \in 1..len |-> IF len - p >= Bits \div 4 THEN "0"
                       ELSE LowerDigits[Nibble(v, len - p) + 1]]

\* printf("%*" PRIu64, w, v): decimal digits, space-padded on the left to w.
\* The digits are produced DecChunk at a time, by division by 10^DecChunk.
DecChunk == 6
DecChunkDigits(n) == [p \in 1..DecChunk |-> LowerDigits[((n \div (10 ^ (DecChunk - p))) % 10) + 1]]
RECURSIVE DecPadded(_)
DecPadded(v) ==
  IF v = Zero THEN <<>>
  ELSE LET d == DivMod(v, 10 ^ DecChunk) IN DecPadded(d.q) \o DecChunkDigits(d.r)
DecDigits(v) ==
  LET padded == DecPadded(v)
      start == CHOOSE p \in 1..Len(padded) :
                 padded[p] # "0" /\ \A q \in 1..(p - 1) : padded[q] = "0"
  IN SubSeq(padded, start, Len(padded))
\* FormatDec with the 0 flag of the hex field: zero-padded
FormatDecZeroPadded(v, w) ==
  LET digs == IF v = Zero THEN <<"0">> ELSE DecDigits(v)
  IN IF Len(digs) >= w THEN digs ELSE Rep("0", w - Len(digs)) \o digs
FormatDec(v, w) ==
  LET digs == IF v = Zero THEN <<"0">> ELSE DecDigits(v)
  IN IF Len(digs) >= w THEN digs ELSE Rep(" ", w - Len(digs)) \o digs

\* printf("%6.1f%c", (v * 1.0) / data[multi].multi, data[multi].suffix).
\* The division of the double d by 1024^multi is exact: the limbs of d
\* above limb multi are the whole part of the quotient, the limbs up to
\* multi its fraction.  %.1f rounds the fraction to tenths, to nearest and
\* to even on a tie.
\* the quotient in tenths, rounded; frac10 is ten times the fraction
Tenths(whole, frac10, multi) ==
  LET cmp == CmpFrom([j \in 1..NLimbs |-> IF j <= multi THEN frac10[j] ELSE 0],
                     [j \in 1..NLimbs |-> IF j = multi THEN Radix \div 2 ELSE 0],
                     NLimbs)
  IN (whole * 10) + frac10[multi + 1]
       + (IF multi # BYTE /\ (cmp > 0 \/ (cmp = 0 /\ frac10[multi + 1] % 2 = 1))
          THEN 1 ELSE 0)
FormatTenths(tenths) ==
  FormatDec(U64(tenths \div 10), 4) \o <<".", LowerDigits[(tenths % 10) + 1]>>
Quotient(d, multi) ==
  FormatTenths(Tenths(d.val[multi + 1]
                        + (IF multi + 1 < NLimbs THEN Radix * d.val[multi + 2]
                           ELSE TopRadix * d.carry),
                      MulAdd([j \in 1..NLimbs |-> IF j <= multi THEN d.val[j] ELSE 0],
                             10, 0).val,
                      multi))
print_size(v) ==
  LET multi == get_multiplier(v)
  IN [quotient |-> Quotient(ToDouble(v), multi), suffix |-> data[multi].suffix]

\* one line of standard output: "0x<hex> <dec> <quotient><suffix>[  <bin>]\n"
print_number(v, width, show_bin, zero_ch) ==
  [hex |-> <<"0", "x">> \o FormatHex(v, data[width].width_hex),
   dec |-> FormatDec(v, data[width].width_dec),
   size |-> print_size(v),
   bin |-> IF show_bin = 1 THEN print_binary(v, zero_ch) ELSE <<>>]

\* ------------------------------------------------------------------------
\* Parsing
\* ------------------------------------------------------------------------
\* messages written to standard error
NoError == [msg |-> "", s |-> <<>>, pos |-> 0]
TooBig == [msg |-> "Binary number too big, max 64 bits.", s |-> <<>>, pos |-> 0]
NotBinary == [msg |-> "Binary numbers can only contain 0 or 1.", s |-> <<>>, pos |-> 0]
ErrorInValue(s, pos) == [msg |-> "Error in value", s |-> s, pos |-> pos]

\* strtoull(s, &ptr, 0).  end is the 1-based index of the character ptr
\* points to (Len(s) + 1: the terminating NUL).
RECURSIVE SkipSpace(_, _)
SkipSpace(s, p) ==
  IF p <= Len(s) /\ IsSpace(s[p]) THEN SkipSpace(s, p + 1) ELSE p
\* the digits of the given base from p on: accumulated value (wrapped),
\* whether it exceeded 2^64-1, and the index after the last digit
RECURSIVE Accumulate(_, _, _, _, _)
Accumulate(s, p, base, acc, over) ==
  IF p <= Len(s) /\ DigitVal(s[p]) < base
  THEN LET r == MulAdd(acc, base, DigitVal(s[p]))
       IN IF r.carry # 0 THEN Accumulate(s, p + 1, base, r.val, TRUE)
          ELSE Accumulate(s, p + 1, base, r.val, over)
  ELSE [val |-> acc, over |-> over, end |-> p]
strtoull(s) ==
  LET p0 == SkipSpace(s, 1)
      signed == p0 <= Len(s) /\ s[p0] \in {"-", "+"}
      negative == signed /\ s[p0] = "-"
      p1 == IF signed THEN p0 + 1 ELSE p0
      hex == p1 + 1 <= Len(s) /\ s[p1] = "0" /\ s[p1 + 1] \in {"x", "X"}
      base == IF hex THEN 16 ELSE IF p1 <= Len(s) /\ s[p1] = "0" THEN 8 ELSE 10
      save == IF hex THEN p1 + 2 ELSE p1
      r == Accumulate(s, save, base, Zero, FALSE)
  IN IF r.end = save
     THEN \* no conversion: after "0x" the subject sequence is the "0"
          [val |-> Zero, end |-> IF hex THEN p1 + 1 ELSE 1]
     ELSE [val |-> IF r.over THEN ULLONG_MAX
                   ELSE IF negative THEN Neg(r.val) ELSE r.val,
           end |-> r.end]

\* The loop of parse_binary, for (i = strlen(s) - 1; i > 1; i--), in closed
\* form.  It stops at the last character of s that is neither '0' nor '1'
\* (C index i, s[i] being s[i + 1] here) or runs down to i = 1.  The
\* iteration at index i has mask = 1 << (strlen(s) - 1 - i), a shift of at
\* most 63 as strlen(s) <= 66, and sets that bit of *v when s[i] is '1'.
parse_binary_stop(s) ==
  LET bad == {i \in 2..(Len(s) - 1) : s[i + 1] \notin {"0", "1"}}
  IN IF bad = {} THEN 1 ELSE CHOOSE i \in bad : \A j \in bad : j <= i
parse_binary_loop(s) ==
  LET stop == parse_binary_stop(s)
      v == FromBits({Len(s) - 1 - i : i \in {j \in (stop + 1)..(Len(s) - 1) : s[j + 1] = "1"}})
  IN IF stop > 1 THEN [rc |-> -1, v |-> v, err |-> NotBinary]
     ELSE [rc |-> 0, v |-> v, err |-> NoError]

MaxBinaryLen == 66
\* parse_binary with the limit of 64 applied to the whole string, prefix included
parse_binary_counts_prefix(s, v0) ==
  IF Len(s) > Bits THEN [rc |-> -1, v |-> v0, err |-> TooBig]
  ELSE parse_binary_loop(s)
\* v0 is the caller's *v, left as it is when the literal is too long
parse_binary(s, v0) ==
  IF Len(s) > MaxBinaryLen THEN [rc |-> -1, v |-> v0, err |-> TooBig]
  ELSE parse_binary_loop(s)

\* the switch without its lower-case labels
SuffixBandUpperOnly(c) ==
  CASE c = "K" -> KILO
    [] c = "M" -> MEGA
    [] c = "G" -> GIGA
    [] c = "T" -> TERA
    [] c = "P" -> PETA
    [] c = "E" -> EXI
    [] OTHER -> -1
\* the band a suffix character selects in the switch of get_value, or -1
SuffixBand(c) ==
  CASE c \in {"K", "k"} -> KILO
    [] c \in {"M", "m"} -> MEGA
    [] c \in {"G", "g"} -> GIGA
    [] c \in {"T", "t"} -> TERA
    [] c \in {"P", "p"} -> PETA
    [] c \in {"E", "e"} -> EXI
    [] OTHER -> -1

\* a multiplication that stops at 2^64-1 instead of wrapping
multiply_by_saturating(val, band) ==
  IF Lt(Ones(Bits - LimbBits * band), val) THEN ULLONG_MAX
  ELSE Mul(val, data[band].multi)
\* *v *= data[band].multi
multiply_by(val, band) == Mul(val, data[band].multi)

get_value(s, v0) ==
  IF Len(s) > 2 /\ s[1] = "0" /\ (s[2] = "b" \/ s[2] = "B")
  THEN parse_binary(s, v0)
  ELSE LET r == strtoull(s)
       IN IF r.end <= Len(s)
          THEN IF SuffixBand(s[r.end]) # -1
               THEN [rc |-> 0, v |-> multiply_by(r.val, SuffixBand(s[r.end])),
                     err |-> NoError]
               ELSE [rc |-> -1, v |-> r.val, err |-> ErrorInValue(s, r.end - 1)]
          ELSE [rc |-> 0, v |-> r.val, err |-> NoError]

\* print_string padding each value to the widths of its own band
print_string_own_width(s, width, show_bin, zero_ch) ==
  LET r == get_value(s, Zero)
  IN IF r.rc # 0 THEN [out |-> <<>>, err |-> <<r.err>>]
     ELSE [out |-> <<print_number(r.v, get_multiplier(r.v), show_bin, zero_ch)>>,
           err |-> <<>>]
\* the lines print_string adds to standard output and standard error
print_string(s, width, show_bin, zero_ch) ==
  LET r == get_value(s, Zero)
  IN IF r.rc # 0 THEN [out |-> <<>>, err |-> <<r.err>>]
     ELSE [out |-> <<print_number(r.v, width, show_bin, zero_ch)>>, err |-> <<>>]

\* values[] of print_all, with its terminating 0
values == <<U64(8), U64(16), U64(64), U64(128), U64(256), U64(512),
            Mul(U64(1), KB), Mul(U64(4), KB), Mul(U64(16), KB), Mul(U64(64), KB),
            Mul(U64(1), MB), Mul(U64(16), MB), Mul(U64(64), MB), Mul(U64(256), MB),
            Mul(U64(512), MB),
            Mul(U64(1), GB), Mul(U64(4), GB),
            Mul(U64(1), TB),
            Mul(U64(1), PB),
            Mul(U64(1), EB),
            Zero>>
\* for (i = 0; values[i] != 0; i++) print_number(values[i], EXI, show_bin)
print_all(show_bin, zero_ch) ==
  LET end == CHOOSE k \in 1..Len(values) :
               values[k] = Zero /\ \A j \in 1..(k - 1) : values[j] # Zero
  IN [k \in 1..(end - 1) |-> print_number(values[k], EXI, show_bin, zero_ch)]

\* strncmp(s, flag, 2) == 0 for a two-character flag
strncmp2(s, flag) == Len(s) >= 2 /\ s[1] = flag[1] /\ s[2] = flag[2]

EXIT_SUCCESS == 0
EXIT_FAILURE == 1

\* ------------------------------------------------------------------------
\* Command lines
\* ------------------------------------------------------------------------
MaxLen == 3
MaxArgs == 2

\* every string of at most MaxLen characters over Alphabet
Alphabet == {"0", "1", "x", "b", "K", "e"}
RECURSIVE StringsOfLen(_)
StringsOfLen(n) ==
  IF n = 0 THEN {<<>>}
  ELSE {<<c>> \o s : c \in Alphabet, s \in StringsOfLen(n - 1)}
ShortStrings == UNION {StringsOfLen(n) : n \in 0..MaxLen}

\* values around the band boundaries and the widths of print_binary
Succ(v) == MulAdd(v, 1, 1).val
BoundaryBits == {0, 2, 4, 8, 10, 16, 20, 30, 32, 40, 50, 60, 63}
BoundaryValues ==
  {Ones(n) : n \in BoundaryBits} \cup {Succ(Ones(n)) : n \in BoundaryBits}
    \cup {ULLONG_MAX, U64(5), U64(1280)}
Decimal(v) == FormatDec(v, 0)
Hex(v) == <<"0", "x">> \o FormatHex(v, 0)
Literals ==
  {Decimal(v) : v \in BoundaryValues} \cup {Hex(v) : v \in BoundaryValues}
    \cup {<<"0", "1", "7">>, <<"0", "7", "7", "7">>, <<"0", "X", "F", "f">>,
          <<"0">> \o Rep("7", 21), <<"0", "1">> \o Rep("7", 21),
          <<"0", "2">> \o Rep("0", 21)}
\* literals whose value exceeds 2^64-1
TooLarge ==
  {[Decimal(ULLONG_MAX) EXCEPT ![Len(Decimal(ULLONG_MAX))] = "6"],
   Rep("9", 20), <<"0", "x">> \o Rep("f", 17), <<"0", "x", "1">> \o Rep("0", 16)}

SuffixLetters == {"K", "k", "M", "m", "G", "g", "T", "t", "P", "p", "E", "e"}
ScaledBits == {0, 1, 4, 10, 14, 24, 34, 44, 54, 63, 64}
ScaledValues ==
  {Ones(n) : n \in ScaledBits} \cup {Succ(Ones(n)) : n \in ScaledBits \ {64}}
    \cup {U64(5)}
Scaled ==
  {lit \o <<c>> : lit \in {Decimal(v) : v \in ScaledValues}
                          \cup {Hex(v) : v \in ScaledValues}
                          \cup {<<"0", "1", "7">>} \cup TooLarge,
                  c \in SuffixLetters}

BinaryDigits == {"0", "1"}
BinaryPrefixes == {<<"0", "b">>, <<"0", "B">>}
BinaryLiterals ==
  {p \o s : p \in BinaryPrefixes,
            s \in {<<"1", "0", "1", "0">>, <<"1">>, <<"0">>, <<"1", "0", "2">>,
                   <<"2">>, <<"1", "K">>, <<" ", "1">>, <<"b", "1">>}}
    \cup {p \o Rep(c, n) : p \in BinaryPrefixes, c \in BinaryDigits,
                           n \in (MaxBinaryLen - 4)..(MaxBinaryLen - 1)}
    \cup {p \o <<c>> \o Rep(d, n) \o <<e>> :
            p \in BinaryPrefixes, c \in {"1", "2"}, d \in BinaryDigits,
            e \in {"0", "1", "x"}, n \in (MaxBinaryLen - 6)..(MaxBinaryLen - 3)}

Malformed ==
  {<<"5", "X">>, <<"1", "K", "B">>, <<"1", "K", "5">>, <<"2", "M", "i", "B">>,
   <<"1", ".", "5", "K">>, <<"a", "b", "c">>, <<"0", "8">>, <<"0", "x", "g">>,
   <<"-", "5">>, <<"+", "5">>, <<" ", "5">>, <<"-", "1", "K">>, <<"-">>,
   <<"5", " ">>, <<"1", "2", "8", "0">>}

\* the value arguments of the invocations with one value argument
Singles == ShortStrings \cup Literals \cup TooLarge \cup Scaled
             \cup BinaryLiterals \cup Malformed

\* the value arguments of the invocations with several value arguments
Samples ==
  {<<"5">>, Decimal(Ones(10)), Decimal(KB), Decimal(MB), <<"1", "G">>,
   Decimal(Ones(60)), <<"1", "E">>, <<"5", "X">>}
RECURSIVE ListsOfLen(_)
ListsOfLen(n) ==
  IF n = 0 THEN {<<>>}
  ELSE {<<s>> \o l : s \in Samples, l \in ListsOfLen(n - 1)}
SampleLists == UNION {ListsOfLen(n) : n \in 0..MaxArgs}
ModeArgs == {<<"-", "b">>, <<"-", "B">>}
OtherModeArgs == {<<"-", "b", "5">>, <<"-", "B", "b">>, <<"-">>, <<"-", "x">>}

\* argv[1..argc-1]
CommandLines ==
  {<<s>> : s \in Singles} \cup SampleLists
    \cup {<<m>> \o l : m \in ModeArgs, l \in SampleLists}
    \cup {<<m, s>> : m \in ModeArgs \cup OtherModeArgs, s \in Literals \cup Malformed}

\* ------------------------------------------------------------------------
\* main
\* ------------------------------------------------------------------------
VARIABLES
  argv,        \* argv[1..argc-1]: the arguments after the program name
  pc,          \* where main is: "start", "check", "scan", "print", "done"
  i,           \* the loop index of the running for loop
  v,           \* main's v, as left by the last get_value of the first loop
  width,
  show_bin,
  first,
  zero_ch,
  stdout,      \* the lines printed, in order
  stderr,      \* the messages printed, in order
  exit_status  \* <<>> while running, then <<status>>

vars == <<argv, pc, i, v, width, show_bin, first, zero_ch, stdout, stderr, exit_status>>

argc == Len(argv) + 1

Init ==
  /\ argv \in CommandLines
  /\ pc = "start"
  /\ i = 0
  /\ v = Zero
  /\ width = BYTE
  /\ show_bin = 0
  /\ first = 1
  /\ zero_ch = " "
  /\ stdout = <<>>
  /\ stderr = <<>>
  /\ exit_status = <<>>

\* if (argc > 1) { strncmp(argv[1], "-b", 2) ... }
ParseMode ==
  /\ pc = "start"
  /\ pc' = "check"
  /\ IF argc > 1 /\ strncmp2(argv[1], <<"-", "b">>)
     THEN show_bin' = 1 /\ first' = 2 /\ zero_ch' = "."
     ELSE IF argc > 1 /\ strncmp2(argv[1], <<"-", "B">>)
     THEN show_bin' = 1 /\ first' = 2 /\ zero_ch' = "0"
     ELSE UNCHANGED <<show_bin, first, zero_ch>>
  /\ UNCHANGED <<argv, i, v, width, stdout, stderr, exit_status>>

\* if (first >= argc) { print_all(show_bin); exit(EXIT_SUCCESS); }
PrintAll ==
  /\ pc = "check"
  /\ first >= argc
  /\ stdout' = stdout \o print_all(show_bin, zero_ch)
  /\ exit_status' = <<EXIT_SUCCESS>>
  /\ pc' = "done"
  /\ UNCHANGED <<argv, i, v, width, show_bin, first, zero_ch, stderr>>

\* for (int i = first; ...
StartScan ==
  /\ pc = "check"
  /\ ~(first >= argc)
  /\ i' = first
  /\ pc' = "scan"
  /\ UNCHANGED <<argv, v, width, show_bin, first, zero_ch, stdout, stderr, exit_status>>

\* the first loop going on to the next argument after a parse error
ScanArgSkipsBad ==
  /\ pc = "scan"
  /\ i < argc
  /\ LET r == get_value(argv[i], v)
     IN /\ v' = r.v
        /\ IF r.rc # 0
           THEN /\ stderr' = Append(stderr, r.err)
                /\ i' = i + 1
                /\ UNCHANGED <<pc, width, exit_status>>
           ELSE /\ width' = IF width < get_multiplier(r.v)
                            THEN get_multiplier(r.v) ELSE width
                /\ i' = i + 1
                /\ UNCHANGED <<pc, stderr, exit_status>>
  /\ UNCHANGED <<argv, show_bin, first, zero_ch, stdout>>
\* one iteration of the first loop
ScanArg ==
  /\ pc = "scan"
  /\ i < argc
  /\ LET r == get_value(argv[i], v)
     IN /\ v' = r.v
        /\ IF r.rc # 0
           THEN /\ stderr' = Append(stderr, r.err)
                /\ exit_status' = <<EXIT_FAILURE>>
                /\ pc' = "done"
                /\ UNCHANGED <<i, width>>
           ELSE /\ width' = IF width < get_multiplier(r.v)
                            THEN get_multiplier(r.v) ELSE width
                /\ i' = i + 1
                /\ UNCHANGED <<pc, stderr, exit_status>>
  /\ UNCHANGED <<argv, show_bin, first, zero_ch, stdout>>

\* the first loop ends and the second starts
StartPrint ==
  /\ pc = "scan"
  /\ ~(i < argc)
  /\ i' = first
  /\ pc' = "print"
  /\ UNCHANGED <<argv, v, width, show_bin, first, zero_ch, stdout, stderr, exit_status>>

\* one iteration of the second loop: print_string(argv[i], width, show_bin)
PrintArg ==
  /\ pc = "print"
  /\ i < argc
  /\ LET r == print_string(argv[i], width, show_bin, zero_ch)
     IN /\ stdout' = stdout \o r.out
        /\ stderr' = stderr \o r.err
  /\ i' = i + 1
  /\ UNCHANGED <<argv, pc, v, width, show_bin, first, zero_ch, exit_status>>

\* exit(EXIT_SUCCESS) after the second loop
Exit ==
  /\ pc = "print"
  /\ ~(i < argc)
  /\ exit_status' = <<EXIT_SUCCESS>>
  /\ pc' = "done"
  /\ UNCHANGED <<argv, i, v, width, show_bin, first, zero_ch, stdout, stderr>>

Next ==
  \/ ParseMode
  \/ PrintAll
  \/ StartScan
  \/ ScanArg
  \/ StartPrint
  \/ PrintArg
  \/ Exit

Spec == Init /\ [][Next]_vars

\* ------------------------------------------------------------------------
\* Reference definitions for the properties
\* ------------------------------------------------------------------------
\* natural numbers of any size: base-1024 digits, least significant first
RECURSIVE NatMulAddFrom(_, _, _, _)
NatMulAddFrom(a, m, c, k) ==
  IF k > Len(a) THEN (IF c = 0 THEN <<>> ELSE <<c % Radix, c \div Radix>>)
  ELSE LET t == a[k] * m + c
       IN <<t % Radix>> \o NatMulAddFrom(a, m, t \div Radix, k + 1)
\* the number written with the given digits, read four digits at a time
RECURSIVE SmallOfDigits(_, _)
SmallOfDigits(digits, base) ==
  IF digits = <<>> THEN 0
  ELSE (SmallOfDigits(SubSeq(digits, 1, Len(digits) - 1), base) * base)
       + DigitVal(digits[Len(digits)])
RECURSIVE NatOfDigits(_, _)
NatOfDigits(digits, base) ==
  IF Len(digits) <= 4 THEN NatMulAddFrom(<<>>, 1, SmallOfDigits(digits, base), 1)
  ELSE NatMulAddFrom(NatOfDigits(SubSeq(digits, 1, Len(digits) - 4), base),
                     base ^ 4,
                     SmallOfDigits(SubSeq(digits, Len(digits) - 3, Len(digits)), base),
                     1)
\* n * 1024^k
NatScale(n, k) == Rep(0, k) \o n
\* n <= 2^64-1
NatFits(n) ==
  \A j \in 1..Len(n) : (j > NLimbs => n[j] = 0) /\ (j = NLimbs => n[j] < TopRadix)
\* n mod 2^64, as a uint64_t
NatMod64(n) == [j \in 1..NLimbs |-> IF j > Len(n) THEN 0 ELSE n[j] % LimbRadix(j)]
\* 1024^k as a uint64_t, k in 0..6
Pow1024(k) == [j \in 1..NLimbs |-> IF j = k + 1 THEN 1 ELSE 0]

\* integer literals as the manual describes them: decimal, octal, hexadecimal
AllIn(s, from, base) == \A j \in from..Len(s) : DigitVal(s[j]) < base
IsDecimalLiteral(l) == Len(l) >= 1 /\ l[1] # "0" /\ AllIn(l, 1, 10)
IsOctalLiteral(l) == Len(l) >= 1 /\ l[1] = "0" /\ AllIn(l, 1, 8)
IsHexLiteral(l) == Len(l) >= 3 /\ l[1] = "0" /\ l[2] \in {"x", "X"} /\ AllIn(l, 3, 16)
IsLiteral(l) == IsDecimalLiteral(l) \/ IsOctalLiteral(l) \/ IsHexLiteral(l)
LiteralValue(l) ==
  IF IsHexLiteral(l) THEN NatOfDigits(SubSeq(l, 3, Len(l)), 16)
  ELSE IF IsOctalLiteral(l) THEN NatOfDigits(l, 8)
  ELSE NatOfDigits(l, 10)
\* K, M, G, T, P, E in either case: the exponent of 1024
SuffixExponent(c) ==
  CASE c \in {"K", "k"} -> 1 [] c \in {"M", "m"} -> 2 [] c \in {"G", "g"} -> 3
    [] c \in {"T", "t"} -> 4 [] c \in {"P", "p"} -> 5 [] c \in {"E", "e"} -> 6
IsSuffixLetter(c) == c \in SuffixLetters
\* a literal followed by exactly one suffix letter
IsSuffixed(s) ==
  Len(s) >= 2 /\ IsSuffixLetter(s[Len(s)]) /\ IsLiteral(SubSeq(s, 1, Len(s) - 1))
LiteralOf(s) == SubSeq(s, 1, Len(s) - 1)
ScaledValue(s) == NatScale(LiteralValue(LiteralOf(s)), SuffixExponent(s[Len(s)]))
\* a hexadecimal literal followed by E or e, which is itself a hexadecimal literal
IsHexWithE(s) == IsHexLiteral(LiteralOf(s)) /\ s[Len(s)] \in {"E", "e"}

\* the binary digits of x, most significant first, without leading zeros
BinaryDigitsOf(x) == LET len == BitLength(x) IN [p \in 1..len |-> Bit(x, len - p)]

\* 0b or 0B followed by at least one character
IsBinaryForm(s) == Len(s) > 2 /\ s[1] = "0" /\ s[2] \in {"b", "B"}
BinaryBody(s) == SubSeq(s, 3, Len(s))

\* the get_value call main made last in its first loop: its argument, and
\* whether it returned 0 (its *v is the variable v)
LastScanned ==
  \/ pc = "scan" /\ i > first
  \/ pc = "done" /\ exit_status = <<EXIT_FAILURE>>
LastArg == IF pc = "scan" THEN argv[i - 1] ELSE argv[i]
LastOk == pc = "scan"

\* the value arguments, once the mode has been looked at
ModeParsed == pc # "start"
ValueArgs == first..(argc - 1)
Parses(s) == get_value(s, Zero).rc = 0
ValueOf(s) == get_value(s, Zero).v
AllParse == \A k \in ValueArgs : Parses(argv[k])
\* the band whose suffix character is c
BandOfSuffix(c) == CHOOSE b \in Bands : data[b].suffix = c
\* line n of the output of the second loop is that of argument first + n - 1
ArgOfLine(n) == argv[first + n - 1]
FromArgs == ModeParsed /\ ValueArgs # {}

\* ------------------------------------------------------------------------
\* Properties
\* ------------------------------------------------------------------------
\* C1: when some value argument does not parse, nothing is ever printed to
\* standard output, the second loop is never entered, and the run ends
\* with a non-zero exit status.
C1_FailFast ==
  (ModeParsed /\ ~AllParse) =>
    /\ stdout = <<>>
    /\ pc # "print"
    /\ pc = "done" => exit_status # <<EXIT_SUCCESS>> /\ exit_status # <<>>
\* the run has ended in failure on an argument that follows one that parsed
C1_Witness ==
  /\ pc = "done"
  /\ exit_status = <<EXIT_FAILURE>>
  /\ i > first
  /\ Parses(argv[first])
  /\ stderr # <<>>

\* C2: when all value arguments parse, every printed line has the hex and
\* decimal field widths of the band W, the largest band of any argument,
\* so the fields have the same length on every line, while the suffix
\* letter of a line is that of the band of its own value.
SharedWidth ==
  LET bands == {get_multiplier(ValueOf(argv[k])) : k \in ValueArgs}
  IN CHOOSE w \in bands : \A b \in bands : b <= w
C2_SharedWidth ==
  (stdout # <<>> /\ FromArgs /\ AllParse) =>
    LET W == SharedWidth
    IN \A n \in 1..Len(stdout) :
         /\ Len(stdout[n].hex) = 2 + data[W].width_hex
         /\ Len(stdout[n].dec) = data[W].width_dec
         /\ stdout[n].size.suffix = data[get_multiplier(ValueOf(ArgOfLine(n)))].suffix
\* 1024 and 1048576 printed with the widths of Mega and the suffixes K and M
C2_Witness ==
  /\ pc = "done"
  /\ argv = <<Decimal(KB), Decimal(MB)>>
  /\ Len(stdout) = 2
  /\ stdout[1].size.suffix = "K" /\ stdout[2].size.suffix = "M"
  /\ Len(stdout[1].hex) = 2 + data[MEGA].width_hex
  /\ Len(stdout[1].dec) = data[MEGA].width_dec
  /\ Len(stdout[2].dec) = data[MEGA].width_dec

\* C3: the band of a printed value is monotonic in the value, and it is
\* Byte below 1024, band k on [1024^k, 1024^(k+1)) for k = 1..5, and Exa
\* from 1024^6 on.
LineBand(n) == BandOfSuffix(stdout[n].size.suffix)
InBand(x, b) ==
  /\ b = BYTE \/ Le(Pow1024(b), x)
  /\ b = EXI \/ Lt(x, Pow1024(b + 1))
C3_BandsMonotonic ==
  (LastScanned \/ (stdout # <<>> /\ FromArgs /\ AllParse)) =>
    /\ LET lines == {[val |-> ValueOf(ArgOfLine(n)), band |-> LineBand(n)] :
                        n \in 1..Len(stdout)}
       IN /\ \A l \in lines : InBand(l.val, l.band)
          /\ \A l, m \in lines : Le(l.val, m.val) => l.band <= m.band
    /\ LastScanned /\ LastOk => InBand(v, get_multiplier(v)) /\ get_multiplier(v) <= width
\* 1023 then 1024 printed, as bytes and as kilo
C3_Witness ==
  /\ pc = "done"
  /\ Len(stdout) = 2
  /\ ValueOf(argv[1]) = Ones(10) /\ ValueOf(argv[2]) = Succ(Ones(10))
  /\ LineBand(1) = BYTE /\ LineBand(2) = KILO

\* C4 as stated: the multiplier of the band of v is the largest of the
\* seven multipliers 1024^0 .. 1024^6 that is <= v + 1.
LargestPowerUpTo(x) ==
  Pow1024(CHOOSE k \in Bands :
            /\ Le(Pow1024(k), x)
            /\ \A j \in Bands : Le(Pow1024(j), x) => j <= k)
C4_LargestPowerUpToSucc ==
  (LastScanned /\ LastOk) =>
    data[get_multiplier(v)].multi =
      IF v = ULLONG_MAX THEN Pow1024(EXI) ELSE LargestPowerUpTo(Succ(v))
\* C4 amended: the multiplier of the band of v is the largest of the seven
\* multipliers that is <= v, and 1 (Byte) when v is 0.
C4_LargestPowerUpToValue ==
  (LastScanned /\ LastOk) =>
    data[get_multiplier(v)].multi =
      IF v = Zero THEN Pow1024(BYTE) ELSE LargestPowerUpTo(v)
\* 1023 has been parsed: 1024 <= v + 1, yet its band is Byte
C4_Witness ==
  /\ LastScanned /\ LastOk
  /\ v = Ones(10)
  /\ data[get_multiplier(v)].multi = Pow1024(BYTE)

\* C5: the hex field and the decimal field print_number prints for v, at
\* any display width, parse back to v; so do the fields of the lines
\* printed.
C5_RoundTrip ==
  /\ (LastScanned /\ LastOk) =>
       \A w \in Bands :
         LET line == print_number(v, w, show_bin, zero_ch)
         IN /\ get_value(line.hex, Zero) = [rc |-> 0, v |-> v, err |-> NoError]
            /\ get_value(line.dec, Zero) = [rc |-> 0, v |-> v, err |-> NoError]
  /\ (stdout # <<>> /\ FromArgs /\ AllParse) =>
       \A n \in 1..Len(stdout) :
         LET given == [rc |-> 0, v |-> ValueOf(ArgOfLine(n)), err |-> NoError]
         IN /\ get_value(stdout[n].hex, Zero) = given
            /\ get_value(stdout[n].dec, Zero) = given
\* a value of the Peta band printed in a field padded to the Exa widths
C5_Witness ==
  /\ pc = "done"
  /\ Len(stdout) = 2
  /\ ValueOf(argv[1]) = Ones(60)
  /\ stdout[1].dec = <<" ">> \o Decimal(Ones(60))
  /\ stdout[1].hex = <<"0", "x", "0">> \o Rep("f", 15)

\* C6 as stated: a literal with value n followed by one suffix letter, with
\* n * 1024^k <= 2^64-1, parses to n * 1024^k, for all six letters in
\* either case.
C6_SuffixMultiplies ==
  (LastScanned /\ IsSuffixed(LastArg) /\ NatFits(ScaledValue(LastArg))) =>
    LastOk /\ v = NatMod64(ScaledValue(LastArg))
\* C6 amended: the same, except that E or e after a hexadecimal literal is
\* a hexadecimal digit: the argument is then the longer hexadecimal literal
\* and parses to its value, with no multiplication.
C6_SuffixMultipliesUnlessHexDigit ==
  (LastScanned /\ IsSuffixed(LastArg)) =>
    IF IsHexWithE(LastArg)
    THEN LastOk /\ (NatFits(LiteralValue(LastArg)) => v = NatMod64(LiteralValue(LastArg)))
    ELSE NatFits(ScaledValue(LastArg)) => LastOk /\ v = NatMod64(ScaledValue(LastArg))
\* "2G" has been parsed to 2 * 1024^3
C6_Witness ==
  /\ LastScanned /\ LastOk
  /\ LastArg = <<"2", "G">>
  /\ v = Mul(U64(2), Pow1024(3))

\* C7: an argument 0b... or 0B... longer than the prefix fails to parse
\* exactly when it is longer than 66 characters or has a character other
\* than 0 and 1 after the prefix; otherwise bit n of its value is set
\* exactly when the n-th character from the end, within the characters
\* after the prefix, is 1.
C7_BinaryLiteral ==
  (LastScanned /\ IsBinaryForm(LastArg)) =>
    /\ ~LastOk <=> \/ Len(LastArg) > MaxBinaryLen
                   \/ \E j \in 3..Len(LastArg) : LastArg[j] \notin BinaryDigits
    /\ LastOk => \A n \in 0..(Bits - 1) :
                   Bit(v, n) = 1 <=> /\ n < Len(BinaryBody(LastArg))
                                     /\ BinaryBody(LastArg)[Len(BinaryBody(LastArg)) - n] = "1"
\* the longest literal accepted, 64 ones, has been parsed
C7_Witness ==
  /\ LastScanned /\ LastOk
  /\ LastArg = <<"0", "b">> \o Rep("1", Bits)
  /\ Len(LastArg) = MaxBinaryLen
  /\ v = ULLONG_MAX

\* C8: a non-binary argument parses exactly when what follows its numeric
\* part is nothing or one single suffix letter.
TrailingText(s) == SubSeq(s, strtoull(s).end, Len(s))
C8_SuffixValidation ==
  (LastScanned /\ ~IsBinaryForm(LastArg)) =>
    (LastOk <=> \/ TrailingText(LastArg) = <<>>
                \/ Len(TrailingText(LastArg)) = 1 /\ IsSuffixLetter(TrailingText(LastArg)[1]))

\* C9: after -b (-B) every printed value is followed by a bit string of
\* length L, the smallest of 4, 8, 16, 32, 64 with v < 2^L, whose
\* character i from the right is 1 when bit i of v is set and . (0)
\* otherwise; without -b or -B the first argument is a value and no line
\* has a bit string.
BitStringLength(x) ==
  LET n == Len(BinaryDigitsOf(x))
  IN CHOOSE l \in {4, 8, 16, 32, 64} :
       n <= l /\ \A m \in {4, 8, 16, 32, 64} : n <= m => l <= m
ExpectedBits(x, fill) ==
  LET digs == BinaryDigitsOf(x)
      len == BitStringLength(x)
  IN [p \in 1..len |->
        IF p > len - Len(digs) /\ digs[p - (len - Len(digs))] = 1 THEN "1" ELSE fill]
ModeFill ==
  IF argc > 1 /\ Len(argv[1]) >= 2 /\ SubSeq(argv[1], 1, 2) = <<"-", "b">> THEN "."
  ELSE IF argc > 1 /\ Len(argv[1]) >= 2 /\ SubSeq(argv[1], 1, 2) = <<"-", "B">> THEN "0"
  ELSE ""
ValueOfLine(n) ==
  IF ModeFill # "" /\ argc = 2 THEN values[n] ELSE
  IF ModeFill # "" THEN ValueOf(argv[n + 1]) ELSE
  IF argc = 1 THEN values[n] ELSE ValueOf(argv[n])
C9_BinaryDisplay ==
  \A n \in 1..Len(stdout) :
    IF ModeFill # ""
    THEN stdout[n].bin = ExpectedBits(ValueOfLine(n), ModeFill)
    ELSE stdout[n].bin = <<>> /\ (argc > 1 => ValueOfLine(n) = ValueOf(argv[n]))
\* -b 5 has printed .1.1
C9_Witness ==
  /\ pc = "done"
  /\ argv = <<<<"-", "b">>, <<"5">>>>
  /\ Len(stdout) = 1
  /\ stdout[1].bin = <<".", "1", ".", "1">>

\* C10 as stated: a literal n followed by a suffix letter with
\* n * 1024^k > 2^64-1 parses without error to (n * 1024^k) mod 2^64, and
\* an invocation with that one argument prints it and exits with status 0.
PrintsWrapped(x) ==
  (pc = "done" /\ Len(argv) = 1) =>
    /\ exit_status = <<EXIT_SUCCESS>>
    /\ stderr = <<>>
    /\ Len(stdout) = 1
    /\ ValueOf(stdout[1].hex) = x
    /\ ValueOf(stdout[1].dec) = x
Overflowing(s) == IsSuffixed(s) /\ ~NatFits(ScaledValue(s))
C10_SilentOverflow ==
  /\ (LastScanned /\ Overflowing(LastArg)) =>
       LastOk /\ v = NatMod64(ScaledValue(LastArg))
  /\ (ModeParsed /\ Len(argv) = 1 /\ Overflowing(argv[1])) =>
       /\ pc = "done" => exit_status = <<EXIT_SUCCESS>>
       /\ PrintsWrapped(NatMod64(ScaledValue(argv[1])))
\* C10 amended: the same for a literal n <= 2^64-1 that is not a
\* hexadecimal literal followed by E or e.  A literal n > 2^64-1 is read as
\* 2^64-1 before it is multiplied, and E or e after a hexadecimal literal
\* is a digit of it; neither is an error, and the invocation prints the
\* value and exits with status 0 all the same.
ReadValue(s) ==
  IF IsHexWithE(s)
  THEN (IF NatFits(LiteralValue(s)) THEN NatMod64(LiteralValue(s)) ELSE ULLONG_MAX)
  ELSE IF NatFits(LiteralValue(LiteralOf(s)))
  THEN NatMod64(ScaledValue(s))
  ELSE Mul(ULLONG_MAX, Pow1024(SuffixExponent(s[Len(s)])))
C10_SilentOverflowOfFittingLiteral ==
  /\ (LastScanned /\ Overflowing(LastArg)) => LastOk /\ v = ReadValue(LastArg)
  /\ (ModeParsed /\ Len(argv) = 1 /\ Overflowing(argv[1])) =>
       /\ pc = "done" => exit_status = <<EXIT_SUCCESS>>
       /\ PrintsWrapped(ReadValue(argv[1]))
\* "16E" has been printed as 0 and the run has ended with status 0
C10_Witness ==
  /\ pc = "done"
  /\ argv = <<<<"1", "6", "E">>>>
  /\ exit_status = <<EXIT_SUCCESS>>
  /\ Len(stdout) = 1
  /\ stdout[1].hex = <<"0", "x">> \o Rep("0", data[BYTE].width_hex)
====
